---- MODULE Spec2Model ----
(***************************************************************************)
(* State-machine model of cargo-edit's `cargo upgrade` resolution engine   *)
(* (src/bin/upgrade/upgrade.rs) and of `cargo remove`                      *)
(* (crates/cargo-remove/src/cargo/ops/cargo_remove/mod.rs).                *)
(*                                                                         *)
(* A version is a tuple <<major, minor, patch>>; <<>> is Option::None.     *)
(* A requirement string is modelled by its text structure: whether it      *)
(* parses, and its comparators, each a sigil ("" for the default form,     *)
(* "^", "~", "=", "<", "<=", ">", ">=", "*") and the 1..3 version parts it *)
(* spells out.  Two requirement strings are equal iff these are equal.     *)
(***************************************************************************)
EXTENDS Integers, Sequences, FiniteSets, TLC

\* ------------------------------------------------------------------------
\* Bounds
\* ------------------------------------------------------------------------
MaxPackages == 2
MaxEntries == 2
MaxLocked == 2
MaxDeps == 2

\* ------------------------------------------------------------------------
\* Versions and requirement strings
\* ------------------------------------------------------------------------
NoVersion == <<>>

\* A version string that semver::Version::parse rejects.
BadVersion == <<0, 0, 0, 0>>

ParsesAsVersion(v) == Len(v) = 3

Cmp(sigil, parts) == [sigil |-> sigil, parts |-> parts]

Req(comparators) == [ok |-> TRUE, comparators |-> comparators]

\* A requirement string that VersionReq::parse rejects.
BadReq == [ok |-> FALSE, comparators |-> <<>>]

\* The bare version string used as a requirement ("1.5.0").
VersionAsReq(v) == Req(<<Cmp("", v)>>)

\* semver::Comparator::op as assigned by the parser.
OpOf(sigil) ==
    CASE sigil = ""   -> "Caret"
      [] sigil = "^"  -> "Caret"
      [] sigil = "~"  -> "Tilde"
      [] sigil = "="  -> "Exact"
      [] sigil = "<"  -> "Less"
      [] sigil = "<=" -> "LessEq"
      [] sigil = ">"  -> "Greater"
      [] sigil = ">=" -> "GreaterEq"
      [] sigil = "*"  -> "Wildcard"

\* Part i of a partial version, 0 when it is not spelled out.
Part(parts, i) == IF i <= Len(parts) THEN parts[i] ELSE 0

VersionLess(v, w) ==
    \/ v[1] < w[1]
    \/ v[1] = w[1] /\ v[2] < w[2]
    \/ v[1] = w[1] /\ v[2] = w[2] /\ v[3] < w[3]

\* The version agrees with every part the comparator spells out.
PrefixEq(parts, v) == \A i \in 1..Len(parts) : parts[i] = v[i]

Floor(parts) == <<Part(parts, 1), Part(parts, 2), Part(parts, 3)>>

\* semver::Comparator::matches, without pre-release tags.
ComparatorMatches(c, v) ==
    LET op == OpOf(c.sigil)
        p == c.parts
        n == Len(p)
        lo == Floor(p)
        geLo == ~VersionLess(v, lo)
    IN  CASE op = "Exact"     -> PrefixEq(p, v)
          [] op = "Wildcard"  -> PrefixEq(p, v)
          [] op = "Greater"   -> IF n = 3 THEN VersionLess(lo, v)
                                 ELSE geLo /\ ~PrefixEq(p, v)
          [] op = "GreaterEq" -> geLo
          [] op = "Less"      -> VersionLess(v, lo)
          [] op = "LessEq"    -> VersionLess(v, lo) \/ PrefixEq(p, v)
          [] op = "Tilde"     -> geLo /\ PrefixEq(SubSeq(p, 1, IF n = 1 THEN 1 ELSE 2), v)
          [] op = "Caret"     ->
                /\ geLo
                /\ IF p[1] > 0 \/ n = 1 THEN v[1] = p[1]
                   ELSE IF p[2] > 0 \/ n = 2 THEN v[1] = 0 /\ v[2] = p[2]
                   ELSE v = p

\* semver::VersionReq::matches on a parsed requirement.
Matches(req, v) ==
    \A i \in 1..Len(req.comparators) : ComparatorMatches(req.comparators[i], v)

\* ------------------------------------------------------------------------
\* Requirement comparator (upgrade.rs and the cargo_edit library)
\* ------------------------------------------------------------------------
\* any() read as all().
is_pinned_req_AllComparators(old_version_req) ==
    IF old_version_req.ok
    THEN \A i \in 1..Len(old_version_req.comparators) :
            OpOf(old_version_req.comparators[i].sigil)
                \in {"Exact", "Less", "LessEq", "Wildcard"}
    ELSE FALSE

is_pinned_req(old_version_req) ==
    IF old_version_req.ok
    THEN \E i \in 1..Len(old_version_req.comparators) :
            OpOf(old_version_req.comparators[i].sigil)
                \in {"Exact", "Less", "LessEq", "Wildcard"}
    ELSE FALSE

old_version_compatible(old_version_req, new_version) ==
    IF ~old_version_req.ok THEN FALSE
    ELSE IF ~ParsesAsVersion(new_version) THEN FALSE
    ELSE Matches(old_version_req, new_version)

RECURSIVE FirstLocked(_, _, _, _)
FirstLocked(dep_name, req, locked, i) ==
    IF i > Len(locked) THEN NoVersion
    ELSE IF dep_name = locked[i].name /\ Matches(req, locked[i].version)
         THEN locked[i].version
         ELSE FirstLocked(dep_name, req, locked, i + 1)

\* The last matching package instead of the first.
find_locked_version_LastMatch(dep_name, old_version, locked) ==
    LET hits == { i \in 1..Len(locked) :
                    /\ old_version.ok
                    /\ dep_name = locked[i].name
                    /\ Matches(old_version, locked[i].version) }
    IN  IF hits = {} THEN NoVersion
        ELSE locked[CHOOSE i \in hits : \A j \in hits : j <= i].version

find_locked_version(dep_name, old_version, locked) ==
    IF ~old_version.ok THEN NoVersion
    ELSE FirstLocked(dep_name, old_version, locked, 1)

\* Result<Option<String>> of cargo_edit::upgrade_requirement.
UpErr == [tag |-> "err", req |-> BadReq]
UpNone == [tag |-> "none", req |-> BadReq]
UpSome(r) == [tag |-> "some", req |-> r]

\* The comparator moved to the version, keeping the parts it spells out.
assign_partial_req(version, c) ==
    Cmp(c.sigil, [i \in 1..Len(c.parts) |-> version[i]])

Rewritable(c) == OpOf(c.sigil) \in {"Caret", "Tilde", "Exact", "Wildcard"}

upgrade_requirement(req, version) ==
    IF ~req.ok THEN UpErr
    ELSE IF req.comparators = <<>> THEN UpNone
    ELSE IF \E i \in 1..Len(req.comparators) : ~Rewritable(req.comparators[i])
         THEN UpErr
    ELSE LET new_req == Req([i \in 1..Len(req.comparators) |->
                                assign_partial_req(version, req.comparators[i])])
         IN  IF new_req = req THEN UpNone ELSE UpSome(new_req)

\* ------------------------------------------------------------------------
\* cargo upgrade: inputs
\* ------------------------------------------------------------------------
None == [some |-> FALSE, req |-> BadReq]
Some(r) == [some |-> TRUE, req |-> r]

R1 == Req(<<Cmp("", <<1>>)>>)
R1_2 == Req(<<Cmp("", <<1, 2>>)>>)
RExact == Req(<<Cmp("=", <<1, 0, 0>>)>>)

\* Version requirements found in manifests: "1", "1.2", "=1.0.0" and an
\* unparsable one.
OldReqs == {R1, R1_2, RExact, BadReq}

\* Versions the registry reports as latest.
LatestVersions == {<<1, 5, 0>>, <<2, 0, 0>>, BadVersion}

\* Keys of manifest entries; "c" and "d" are named by callers only.
Keys == {"a", "b"}

OtherKey(k) == IF k = "a" THEN "b" ELSE "a"

DefaultRegistry == "crates-io"
RegistryUrls == {"crates-io"}

\* Packages of the lockfile (cargo metadata).
LockedPackages ==
    { [name |-> "a", version |-> <<1, 2, 3>>],
      [name |-> "a", version |-> <<1, 5, 0>>] }

RECURSIVE SeqsUpTo(_, _)
SeqsUpTo(S, n) ==
    IF n = 0 THEN {<<>>}
    ELSE LET shorter == SeqsUpTo(S, n - 1)
         IN  shorter \cup {Append(q, x) : q \in shorter, x \in S}

\* cargo metadata lists a package (name and version) once.  A lockfile that
\* resolves a at one version only decides as the list that starts with it.
LockedLists ==
    { l \in SeqsUpTo(LockedPackages, MaxLocked) :
        /\ \A i, j \in 1..Len(l) : i # j => l[i] # l[j]
        /\ Len(l) # 1 }

\* DEP_ID arguments after CrateSpec::resolve: (name, version_req) in
\* command-line order.
Sel(name, version_req) == [name |-> name, version_req |-> version_req]

SelectedChoices ==
    { <<>>,
      <<Sel("b", None)>>,
      <<Sel("a", Some(R1_2)), Sel("c", None)>>,
      <<Sel("c", None), Sel("d", None)>> }

\* --exclude lists that go with a selection.
ExcludeChoices(selected) ==
    IF Len(selected) <= 1 THEN { {}, {"b"} } ELSE { {} }

Flags == [pinned : BOOLEAN, offline : BOOLEAN, to_lockfile : BOOLEAN,
          dry_run : BOOLEAN, locked : BOOLEAN]

\* A (key, item) pair of a dependency table as Dependency::from_toml reads it.
\* registry is the URL of the entry's alternative registry, "" without one.
Entry(key, parse_ok, version, rename, is_registry, registry) ==
    [key |-> key, parse_ok |-> parse_ok, version |-> version, rename |-> rename,
     name |-> IF rename THEN OtherKey(key) ELSE key,
     is_registry |-> is_registry, registry |-> registry]

\* The entries a manifest can hold under key k: an unsupported one, a path
\* dependency without and with a version, registry dependencies, renamed
\* ones, and dependencies of alternative registries.
Entries(k) ==
    { Entry(k, FALSE, None, FALSE, FALSE, ""),
      Entry(k, TRUE, None, FALSE, FALSE, ""),
      Entry(k, TRUE, Some(R1_2), FALSE, FALSE, "") }
    \cup { Entry(k, TRUE, Some(r), FALSE, TRUE, "") : r \in OldReqs }
    \cup { Entry(k, TRUE, Some(r), TRUE, TRUE, "") : r \in {R1, RExact} }
    \cup { Entry(k, TRUE, Some(R1_2), FALSE, TRUE, u) : u \in RegistryUrls }

\* ------------------------------------------------------------------------
\* cargo upgrade: state
\* ------------------------------------------------------------------------
VARIABLES
    args,                  \* UpgradeArgs flags
    exclude,               \* args.exclude
    selected_dependencies, \* IndexMap name -> Option<version_req>
    locked,                \* packages of the loaded lockfile
    pc,                    \* position of exec
    pkg,                   \* number of packages opened so far
    idx,                   \* number of entries visited so far, over all packages
    processed_keys,
    updated_registries,
    index_updates,         \* calls of update_registry_index per URL
    any_crate_modified,
    compatible_present,
    pinned_present,
    crate_modified,
    table_filled,          \* whether a Dep was pushed to the package's table
    dep_item,              \* the entry visited last, after the iteration
    dep,                   \* the Dep pushed last, <<>> when none
    written,               \* calls of manifest.write per package
    error,                 \* why exec returned Err, "" otherwise
    unused,                \* names listed by the "doesn't exist" error
    notes                  \* notes and warnings printed at the end of exec

upgrade_vars ==
    <<args, exclude, selected_dependencies, locked, pc, pkg, idx, processed_keys,
      updated_registries, index_updates, any_crate_modified, compatible_present,
      pinned_present, crate_modified, table_filled, dep_item, dep, written, error,
      unused, notes>>

\* ------------------------------------------------------------------------
\* cargo remove: state
\* ------------------------------------------------------------------------
VARIABLES
    argv_ok,    \* whether the command line parses
    options,    \* RemoveOptions: dependencies and dry_run
    manifest,   \* the LocalManifest in memory
    file,       \* the manifest file on disk
    rm_pc,      \* position of the invocation
    next_dep,   \* index of the dependency the iterator yields next
    calls,      \* calls made on the manifest, in order
    exit_code,  \* process exit status, -1 while running
    rm_error    \* the error remove returned, "" when none

remove_vars ==
    <<argv_ok, options, manifest, file, rm_pc, next_dep, calls, exit_code, rm_error>>

\* ------------------------------------------------------------------------
\* print_upgrade: state
\* ------------------------------------------------------------------------
VARIABLES
    table,       \* the Vec<Dep> exec hands to print_upgrade
    verbose,     \* args.verbose
    main_table,  \* the rows written to stderr, the two header rows included
    note,        \* the "Re-run with `--verbose`" note: <<>> or <<categorize>>
    print_pc     \* position of the call

report_vars == <<table, verbose, main_table, note, print_pc>>

\* ------------------------------------------------------------------------
\* is_pinned_req: state
\* ------------------------------------------------------------------------
VARIABLES
    pin_req,     \* the requirement string handed to is_pinned_req
    pin_result   \* <<>> before the call, <<returned value>> after it

pin_vars == <<pin_req, pin_result>>

vars == <<upgrade_vars, remove_vars, report_vars, pin_vars>>

NoItem == <<>>
NoDep == <<>>

\* The state exec starts from, apart from the invocation.
InitRun ==
    /\ locked = <<>>
    /\ pkg = 0
    /\ idx = 0
    /\ processed_keys = {}
    /\ updated_registries = {}
    /\ index_updates = [u \in RegistryUrls |-> 0]
    /\ any_crate_modified = FALSE
    /\ compatible_present = FALSE
    /\ pinned_present = FALSE
    /\ crate_modified = FALSE
    /\ table_filled = FALSE
    /\ dep_item = NoItem
    /\ dep = NoDep
    /\ written = [p \in 1..MaxPackages |-> 0]
    /\ error = ""
    /\ unused = <<>>
    /\ notes = {}

\* No remove invocation is under way.
RemoveIdle ==
    /\ argv_ok = TRUE
    /\ options = [dependencies |-> <<>>, dry_run |-> FALSE]
    /\ manifest = [table_exists |-> FALSE, table |-> {}, other |-> {}, features |-> {}]
    /\ file = manifest
    /\ rm_pc = "idle"
    /\ next_dep = 1
    /\ calls = <<>>
    /\ exit_code = -1
    /\ rm_error = ""

\* No call of print_upgrade is under way.
ReportIdle ==
    /\ table = <<>>
    /\ verbose = FALSE
    /\ main_table = <<>>
    /\ note = <<>>
    /\ print_pc = "idle"

\* No call of is_pinned_req is under way.
PinIdle ==
    /\ pin_req = BadReq
    /\ pin_result = <<>>

Init ==
    /\ args \in Flags
    /\ selected_dependencies \in SelectedChoices
    /\ exclude \in ExcludeChoices(selected_dependencies)
    /\ pc = "start"
    /\ InitRun
    /\ RemoveIdle
    /\ ReportIdle
    /\ PinIdle

Fail(why) ==
    /\ pc' = "failed"
    /\ error' = why

\* exec up to the package loop: the default registry's index is refreshed,
\* the targets are resolved and the lockfile is loaded.
Start ==
    /\ pc = "start"
    /\ \E index_ok \in BOOLEAN, targets_ok \in BOOLEAN, lock_ok \in BOOLEAN,
          packages \in LockedLists :
          LET refresh == ~args.offline /\ ~args.to_lockfile
          IN  /\ index_updates' =
                    IF refresh
                    THEN [index_updates EXCEPT ![DefaultRegistry] = @ + 1]
                    ELSE index_updates
              /\ IF refresh /\ ~index_ok
                 THEN Fail("index") /\ UNCHANGED locked
                 ELSE IF ~targets_ok
                 THEN Fail("targets") /\ UNCHANGED locked
                 ELSE /\ locked' = IF lock_ok THEN packages ELSE <<>>
                      /\ pc' = "packages"
                      /\ UNCHANGED error
    /\ UNCHANGED <<args, exclude, selected_dependencies, pkg, idx, processed_keys,
                   updated_registries, any_crate_modified, compatible_present,
                   pinned_present, crate_modified, table_filled, dep_item, dep,
                   written, unused, notes>>
    /\ UNCHANGED <<remove_vars, report_vars, pin_vars>>

\* LocalManifest::try_new for the next package and the loop's locals.
OpenManifest ==
    /\ pc = "packages"
    /\ pkg < MaxPackages
    /\ \E manifest_ok \in BOOLEAN :
          IF manifest_ok
          THEN /\ pkg' = pkg + 1
               /\ crate_modified' = FALSE
               /\ table_filled' = FALSE
               /\ pc' = "entries"
               /\ UNCHANGED <<error, idx>>
          ELSE /\ Fail("manifest")
               /\ UNCHANGED <<pkg, idx, crate_modified, table_filled>>
    /\ UNCHANGED <<args, exclude, selected_dependencies, locked, processed_keys,
                   updated_registries, index_updates, any_crate_modified,
                   compatible_present, pinned_present, dep_item, dep, written,
                   unused, notes>>
    /\ UNCHANGED <<remove_vars, report_vars, pin_vars>>

\* ------------------------------------------------------------------------
\* cargo upgrade: the decision for one entry
\* ------------------------------------------------------------------------
NoReason == "None"

\* The pin check without the rename test.
PinCheck_IgnoresRename(pinned, rename, old_version_req) ==
    IF ~pinned /\ is_pinned_req(old_version_req)
    THEN "Pinned"
    ELSE NoReason

\* The pin check.
PinCheck(pinned, rename, old_version_req) ==
    IF ~pinned /\ (rename \/ is_pinned_req(old_version_req))
    THEN "Pinned"
    ELSE NoReason

RECURSIVE SelectedGetFrom(_, _, _)
SelectedGetFrom(selected, key, i) ==
    IF i = 0 THEN [found |-> FALSE, version_req |-> None]
    ELSE IF selected[i].name = key
         THEN [found |-> TRUE, version_req |-> selected[i].version_req]
         ELSE SelectedGetFrom(selected, key, i - 1)

\* IndexMap::get; contains_key is its found field.
SelectedGet(selected, key) == SelectedGetFrom(selected, key, Len(selected))

\* --to-lockfile: Option<new requirement> from the locked version.
LockfileUpgrade(old_version_req, locked_version) ==
    IF locked_version # NoVersion
    THEN LET up == upgrade_requirement(old_version_req, locked_version)
         IN  CASE up.tag = "some" -> Some(up.req)
               [] up.tag = "err"  -> Some(VersionAsReq(locked_version))
               [] OTHER           -> None
    ELSE None

\* Latest mode without the compatibility test: every computed requirement
\* that differs is taken.
LatestUpgrade_AlwaysUpgrades(old_version_req, latest_version) ==
    IF latest_version # NoVersion
    THEN LET up == upgrade_requirement(old_version_req, latest_version)
             new_version_req ==
                 CASE up.tag = "some" -> up.req
                   [] up.tag = "err"  -> VersionAsReq(latest_version)
                   [] OTHER           -> old_version_req
         IN  IF new_version_req = old_version_req
             THEN [req |-> None, compatible |-> FALSE]
             ELSE [req |-> Some(new_version_req), compatible |-> FALSE]
    ELSE [req |-> None, compatible |-> FALSE]

\* Latest mode with the compatibility test on the unchanged branch.
LatestUpgrade_CompatibleWhenEqual(old_version_req, latest_version) ==
    IF latest_version # NoVersion
    THEN LET up == upgrade_requirement(old_version_req, latest_version)
             new_version_req ==
                 CASE up.tag = "some" -> up.req
                   [] up.tag = "err"  -> VersionAsReq(latest_version)
                   [] OTHER           -> old_version_req
         IN  IF new_version_req = old_version_req
             THEN [req |-> None,
                   compatible |-> old_version_compatible(old_version_req,
                                                         latest_version)]
             ELSE [req |-> Some(new_version_req), compatible |-> FALSE]
    ELSE [req |-> None, compatible |-> FALSE]

\* Latest mode: Option<new requirement> from the latest version, and whether
\* the entry was classified compatible.
LatestUpgrade(old_version_req, latest_version) ==
    IF latest_version # NoVersion
    THEN LET up == upgrade_requirement(old_version_req, latest_version)
             new_version_req ==
                 CASE up.tag = "some" -> up.req
                   [] up.tag = "err"  -> VersionAsReq(latest_version)
                   [] OTHER           -> old_version_req
         IN  IF new_version_req = old_version_req
             THEN [req |-> None, compatible |-> FALSE]
             ELSE IF old_version_compatible(old_version_req, latest_version)
             THEN [req |-> None, compatible |-> TRUE]
             ELSE [req |-> Some(new_version_req), compatible |-> FALSE]
    ELSE [req |-> None, compatible |-> FALSE]

\* The mode is looked at before the caller's explicit requirement.
NewVersionReq_ModeFirst(reason, explicit, to_lockfile, old_version_req, locked_version, latest_version) ==
    IF reason # NoReason
    THEN [req |-> old_version_req, reason |-> reason, compatible |-> FALSE,
          err |-> FALSE]
    ELSE IF to_lockfile
    THEN LET r == LockfileUpgrade(old_version_req, locked_version)
         IN  [req |-> IF r.some THEN r.req ELSE old_version_req,
              reason |-> reason, compatible |-> FALSE, err |-> FALSE]
    ELSE IF explicit.found /\ explicit.version_req.some
    THEN [req |-> explicit.version_req.req, reason |-> reason,
          compatible |-> FALSE, err |-> FALSE]
    ELSE IF latest_version # NoVersion /\ ~ParsesAsVersion(latest_version)
    THEN [req |-> old_version_req, reason |-> reason, compatible |-> FALSE,
          err |-> TRUE]
    ELSE LET r == LatestUpgrade(old_version_req, latest_version)
         IN  [req |-> IF r.req.some THEN r.req.req ELSE old_version_req,
              reason |-> IF r.compatible THEN "Compatible" ELSE reason,
              compatible |-> r.compatible, err |-> FALSE]

\* The new requirement of an entry and the reason after computing it.
NewVersionReq(reason, explicit, to_lockfile, old_version_req, locked_version, latest_version) ==
    IF reason # NoReason
    THEN [req |-> old_version_req, reason |-> reason, compatible |-> FALSE,
          err |-> FALSE]
    ELSE IF explicit.found /\ explicit.version_req.some
    THEN [req |-> explicit.version_req.req, reason |-> reason,
          compatible |-> FALSE, err |-> FALSE]
    ELSE IF to_lockfile
    THEN LET r == LockfileUpgrade(old_version_req, locked_version)
         IN  [req |-> IF r.some THEN r.req ELSE old_version_req,
              reason |-> reason, compatible |-> FALSE, err |-> FALSE]
    ELSE IF latest_version # NoVersion /\ ~ParsesAsVersion(latest_version)
    THEN [req |-> old_version_req, reason |-> reason, compatible |-> FALSE,
          err |-> TRUE]
    ELSE LET r == LatestUpgrade(old_version_req, latest_version)
         IN  [req |-> IF r.req.some THEN r.req.req ELSE old_version_req,
              reason |-> IF r.compatible THEN "Compatible" ELSE reason,
              compatible |-> r.compatible, err |-> FALSE]

\* Unchanged inserted without the comparison of the requirements.
FinalReason_WithoutComparison(reason, new_version_req, old_version_req) ==
    IF reason = NoReason THEN "Unchanged" ELSE reason

\* reason.get_or_insert(Reason::Unchanged) when nothing changed.
FinalReason(reason, new_version_req, old_version_req) ==
    IF new_version_req = old_version_req /\ reason = NoReason
    THEN "Unchanged"
    ELSE reason

\* Dep::old_req_matches_latest.
old_req_matches_latest(d) ==
    IF d.latest_version # NoVersion /\ ParsesAsVersion(d.latest_version)
       /\ d.old_version_req.ok
    THEN Matches(d.old_version_req, d.latest_version)
    ELSE TRUE

req_changed(d) == d.new_version_req # d.old_version_req

\* The test without the look at the latest version.
is_interesting_IgnoresLatest(d) ==
    \/ d.reason = NoReason
    \/ req_changed(d)

is_interesting(d) ==
    \/ d.reason = NoReason
    \/ req_changed(d)
    \/ ~old_req_matches_latest(d)

\* What an iteration leaves behind: the entry's key, its value before and
\* after, how the iteration ended, and how the calls of update_registry_index
\* and get_latest_dependency ended ("none" when the call was not made).
Item(e, outcome, version, index, lookup) ==
    <<[key |-> e.key, rename |-> e.rename, before |-> e.version,
       version |-> version, outcome |-> outcome, index |-> index,
       lookup |-> lookup]>>

\* An entry the loop passes over with `continue`.
Skip(e, outcome) ==
    /\ dep_item' = Item(e, outcome, e.version, "none", "none")
    /\ dep' = NoDep
    /\ UNCHANGED <<pc, error, updated_registries, index_updates,
                   any_crate_modified, compatible_present, pinned_present,
                   crate_modified, table_filled>>

\* The entry is passed over whatever its value is.
Filtered(dep_key, selected, excluded) ==
    \/ selected # <<>> /\ ~SelectedGet(selected, dep_key).found
    \/ dep_key \in excluded

\* Outcomes of the collaborator calls an entry leads to: get_latest_dependency
\* (a version, or <<>> when the lookup fails), registry_url and
\* update_registry_index (TRUE when the call succeeds).
Decidable(e) ==
    /\ ~Filtered(e.key, selected_dependencies, exclude)
    /\ e.parse_ok
    /\ e.version.some

LookupOutcomes(e) ==
    IF Decidable(e) /\ e.is_registry
    THEN LatestVersions \cup {NoVersion}
    ELSE {NoVersion}

UrlOutcomes(e) ==
    IF Decidable(e) /\ e.is_registry /\ e.registry # "" THEN BOOLEAN ELSE {TRUE}

IndexOutcomes(e, offline, updated) ==
    IF Decidable(e) /\ e.is_registry /\ e.registry # "" /\ ~offline
       /\ e.registry \notin updated
    THEN BOOLEAN
    ELSE {TRUE}

\* update_registry_index whose error is dropped.
IndexFails_Swallowed(refresh, index_ok) == FALSE

\* update_registry_index(registry_url, false)? returns the error from exec.
IndexFails(refresh, index_ok) == refresh /\ ~index_ok

\* One iteration of the loop over the entries of the package's tables.
ProcessEntry ==
    /\ pc = "entries"
    /\ dep_item = NoItem
    /\ idx < MaxEntries
    /\ \E dep_key \in Keys :
       \E e \in IF Filtered(dep_key, selected_dependencies, exclude)
                THEN {Entry(dep_key, TRUE, Some(R1_2), FALSE, TRUE, "")}
                ELSE Entries(dep_key) :
        \E lookup \in LookupOutcomes(e), url_ok \in UrlOutcomes(e),
           index_ok \in IndexOutcomes(e, args.offline, updated_registries) :
        LET explicit == SelectedGet(selected_dependencies, dep_key)
            old_version_req == e.version.req
            reason0 == PinCheck(args.pinned, e.rename, old_version_req)
            locked_version == find_locked_version(e.name, old_version_req, locked)
            has_alias == e.is_registry /\ e.registry # ""
            refresh == has_alias /\ ~args.offline /\ e.registry \notin updated_registries
            latest_version == IF e.is_registry THEN lookup ELSE NoVersion
            index == IF ~refresh THEN "none" ELSE IF index_ok THEN "ok" ELSE "failed"
            looked == IF ~e.is_registry THEN "none"
                      ELSE IF lookup = NoVersion THEN "failed" ELSE "ok"
            r == NewVersionReq(reason0, explicit, args.to_lockfile, old_version_req,
                               locked_version, latest_version)
            reason == FinalReason(r.reason, r.req, old_version_req)
            changed == r.req # old_version_req
        IN  /\ processed_keys' = processed_keys \cup {dep_key}
            /\ idx' = idx + 1
            /\ IF selected_dependencies # <<>> /\ ~explicit.found
               THEN Skip(e, "unselected")
               ELSE IF dep_key \in exclude
               THEN Skip(e, "excluded")
               ELSE IF ~e.parse_ok
               THEN Skip(e, "unsupported")
               ELSE IF ~e.version.some
               THEN Skip(e, "no version")
               ELSE
                 /\ pinned_present' = (pinned_present \/ reason0 = "Pinned")
                 /\ IF has_alias /\ ~url_ok
                    THEN /\ Fail("registry url")
                         /\ dep_item' = Item(e, "failed", e.version, "none", "none")
                         /\ dep' = NoDep
                         /\ UNCHANGED <<updated_registries, index_updates,
                                        any_crate_modified, compatible_present,
                                        crate_modified, table_filled>>
                    ELSE
                      /\ updated_registries' =
                            IF refresh THEN updated_registries \cup {e.registry}
                            ELSE updated_registries
                      /\ index_updates' =
                            IF refresh THEN [index_updates EXCEPT ![e.registry] = @ + 1]
                            ELSE index_updates
                      /\ IF IndexFails(refresh, index_ok)
                         THEN /\ Fail("index")
                              /\ dep_item' = Item(e, "failed", e.version, "failed", "none")
                              /\ dep' = NoDep
                              /\ UNCHANGED <<any_crate_modified, compatible_present,
                                             crate_modified, table_filled>>
                         ELSE IF r.err
                         THEN /\ Fail("version")
                              /\ dep_item' = Item(e, "failed", e.version, index, looked)
                              /\ dep' = NoDep
                              /\ UNCHANGED <<any_crate_modified, compatible_present,
                                             crate_modified, table_filled>>
                         ELSE
                           /\ compatible_present' = (compatible_present \/ r.compatible)
                           /\ crate_modified' = (crate_modified \/ changed)
                           /\ any_crate_modified' = (any_crate_modified \/ changed)
                           /\ dep_item' = Item(e, "decided", Some(r.req), index, looked)
                           /\ table_filled' = TRUE
                           /\ dep' = <<[name |-> dep_key,
                                        old_version_req |-> old_version_req,
                                        locked_version |-> locked_version,
                                        latest_version |-> latest_version,
                                        new_version_req |-> r.req,
                                        reason |-> reason]>>
                           /\ UNCHANGED <<pc, error>>
    /\ UNCHANGED <<args, exclude, selected_dependencies, locked, pkg, written,
                   unused, notes>>
    /\ UNCHANGED <<remove_vars, report_vars, pin_vars>>

\* The loop moves on: the iteration's locals are dropped, the Dep stays in
\* the table.
NextIteration ==
    /\ pc = "entries"
    /\ dep_item # NoItem
    /\ dep_item' = NoItem
    /\ dep' = NoDep
    /\ UNCHANGED <<args, exclude, selected_dependencies, locked, pc,
                   pkg, idx, processed_keys, updated_registries, index_updates,
                   any_crate_modified, compatible_present, pinned_present,
                   crate_modified, table_filled, written, error, unused, notes>>
    /\ UNCHANGED <<remove_vars, report_vars, pin_vars>>

\* The write without the --locked guard.
ShouldWrite_IgnoresLocked(a, modified) == ~a.dry_run /\ modified

\* The write without the --dry-run guard.
ShouldWrite_IgnoresDryRun(a, modified) == ~a.locked /\ modified

\* Whether the package's manifest is written back.
ShouldWrite(a, modified) == ~a.dry_run /\ ~a.locked /\ modified

\* The end of a package's iteration: the report and the write.
ClosePackage ==
    /\ pc = "entries"
    /\ dep_item = NoItem
    /\ written' = IF ShouldWrite(args, crate_modified)
                  THEN [written EXCEPT ![pkg] = @ + 1]
                  ELSE written
    /\ pc' = "packages"
    /\ UNCHANGED <<args, exclude, selected_dependencies, locked, pkg, idx,
                   processed_keys, updated_registries, index_updates,
                   any_crate_modified, compatible_present, pinned_present,
                   crate_modified, table_filled, dep_item, dep, error, unused,
                   notes>>
    /\ UNCHANGED <<remove_vars, report_vars, pin_vars>>

RECURSIVE UnusedFrom(_, _, _)
UnusedFrom(selected, keys, i) ==
    IF i > Len(selected) THEN <<>>
    ELSE IF selected[i].name \in keys
         THEN UnusedFrom(selected, keys, i + 1)
         ELSE <<selected[i].name>> \o UnusedFrom(selected, keys, i + 1)

\* Every selected name, visited or not.
Unused_Unfiltered(selected, keys) ==
    IF \A i \in 1..Len(selected) : selected[i].name \in keys
    THEN <<>>
    ELSE [i \in 1..Len(selected) |-> selected[i].name]

\* The selected names that were the key of no visited entry, in order.
Unused(selected, keys) == UnusedFrom(selected, keys, 1)

EndNotes ==
    (IF pinned_present THEN {"pinned"} ELSE {})
    \cup (IF compatible_present THEN {"to-lockfile"} ELSE {})
    \cup (IF args.dry_run THEN {"dry run"} ELSE {})

\* exec after the package loop.
Finish ==
    /\ pc = "packages"
    /\ pkg >= 1
    /\ \E lock_ok \in BOOLEAN :
        IF any_crate_modified /\ args.locked
        THEN Fail("locked") /\ UNCHANGED <<unused, notes>>
        ELSE IF any_crate_modified /\ ~lock_ok
        THEN Fail("lockfile") /\ UNCHANGED <<unused, notes>>
        ELSE IF Unused(selected_dependencies, processed_keys) # <<>>
        THEN /\ Fail("missing")
             /\ unused' = Unused(selected_dependencies, processed_keys)
             /\ UNCHANGED notes
        ELSE /\ pc' = "done"
             /\ notes' = EndNotes
             /\ UNCHANGED <<error, unused>>
    /\ UNCHANGED <<args, exclude, selected_dependencies, locked, pkg, idx,
                   processed_keys, updated_registries, index_updates,
                   any_crate_modified, compatible_present, pinned_present,
                   crate_modified, table_filled, dep_item, dep, written>>
    /\ UNCHANGED <<remove_vars, report_vars, pin_vars>>

Next ==
    \/ Start
    \/ OpenManifest
    \/ ProcessEntry
    \/ NextIteration
    \/ ClosePackage
    \/ Finish

Spec == Init /\ [][Next]_vars

\* ------------------------------------------------------------------------
\* cargo remove
\* ------------------------------------------------------------------------
RmNames == {"a", "b", "x"}

\* Non-empty lists of at most MaxDeps names: the DEP_ID arguments.
DepLists == SeqsUpTo(RmNames, MaxDeps) \ {<<>>}

\* Manifests: whether the table of the section exists and its keys, the keys
\* of the other dependency tables, and the dependencies that feature
\* activations ("name", "name/feature") name.
Manifests ==
    { [table_exists |-> te, table |-> t, other |-> o, features |-> f] :
        te \in BOOLEAN, t \in SUBSET {"a", "b"}, o \in SUBSET {"a"},
        f \in SUBSET {"a", "b"} }

ValidManifests == { m \in Manifests : m.table_exists \/ m.table = {} }

Declared(m) == m.table \cup m.other

\* LocalManifest::remove_from_table: Ok and the manifest without the entry,
\* or DependencyNotFound and the manifest as it was.
remove_from_table(m, name) ==
    IF m.table_exists /\ name \in m.table
    THEN [ok |-> TRUE, manifest |-> [m EXCEPT !.table = @ \ {name}]]
    ELSE [ok |-> FALSE, manifest |-> m]

\* LocalManifest::gc_dep: activations of a dependency declared nowhere go.
gc_dep(m, name) ==
    IF name \in Declared(m) THEN m
    ELSE [m EXCEPT !.features = @ \ {name}]

Call(method, name) == <<method, name>>

\* The closure with gc_dep run only after a successful removal.
RemoveClosure_GcOnSuccess(m, dep_name) ==
    LET result == remove_from_table(m, dep_name)
    IN  IF result.ok
        THEN [ok |-> TRUE,
              manifest |-> gc_dep(result.manifest, dep_name),
              calls |-> <<Call("remove_from_table", dep_name),
                          Call("gc_dep", dep_name)>>]
        ELSE [ok |-> FALSE,
              manifest |-> result.manifest,
              calls |-> <<Call("remove_from_table", dep_name)>>]

\* The closure's work on the manifest: remove_from_table, then gc_dep
\* whatever the result, which the closure returns.
RemoveClosure(m, dep_name) ==
    LET result == remove_from_table(m, dep_name)
    IN  [ok |-> result.ok,
         manifest |-> gc_dep(result.manifest, dep_name),
         calls |-> <<Call("remove_from_table", dep_name),
                     Call("gc_dep", dep_name)>>]

\* An iteration that goes on after an Err.
CollectStops_Never(ok) == FALSE

\* collect::<CargoResult<Vec<_>>>() ends the iteration at the first Err.
CollectStops(ok) == ~ok

InitRemove ==
    /\ args = [pinned |-> FALSE, offline |-> FALSE, to_lockfile |-> FALSE,
               dry_run |-> FALSE, locked |-> FALSE]
    /\ exclude = {}
    /\ selected_dependencies = <<>>
    /\ pc = "idle"
    /\ InitRun
    /\ ReportIdle
    /\ PinIdle
    /\ argv_ok \in BOOLEAN
    /\ options \in [dependencies : DepLists, dry_run : BOOLEAN]
    /\ manifest \in ValidManifests
    /\ file = manifest
    /\ rm_pc = "cli"
    /\ next_dep = 1
    /\ calls = <<>>
    /\ exit_code = -1
    /\ rm_error = ""

\* Command::parse and the start of remove: a command line that does not
\* parse ends the process with status 2; otherwise the manifest is loaded.
RemoveStart ==
    /\ rm_pc = "cli"
    /\ \E manifest_ok \in BOOLEAN :
        IF ~argv_ok
        THEN /\ rm_pc' = "exited"
             /\ exit_code' = 2
             /\ UNCHANGED rm_error
        ELSE IF ~manifest_ok
        THEN /\ rm_pc' = "exited"
             /\ exit_code' = 101
             /\ rm_error' = "manifest"
        ELSE /\ rm_pc' = "removing"
             /\ UNCHANGED <<exit_code, rm_error>>
    /\ UNCHANGED <<argv_ok, options, manifest, file, next_dep, calls>>
    /\ UNCHANGED <<upgrade_vars, report_vars, pin_vars>>

\* One call of the closure mapped over options.dependencies; collect stops
\* at the first Err.
RemoveDep ==
    /\ rm_pc = "removing"
    /\ next_dep <= Len(options.dependencies)
    /\ \E status_ok \in BOOLEAN :
        LET dep_name == options.dependencies[next_dep]
            result == RemoveClosure(manifest, dep_name)
        IN  IF ~status_ok
            THEN /\ rm_pc' = "exited"
                 /\ exit_code' = 101
                 /\ rm_error' = "shell"
                 /\ UNCHANGED <<manifest, calls, next_dep>>
            ELSE /\ manifest' = result.manifest
                 /\ calls' = calls \o result.calls
                 /\ next_dep' = next_dep + 1
                 /\ IF CollectStops(result.ok)
                    THEN /\ rm_pc' = "exited"
                         /\ exit_code' = 101
                         /\ rm_error' = dep_name
                    ELSE UNCHANGED <<rm_pc, exit_code, rm_error>>
    /\ UNCHANGED <<argv_ok, options, file>>
    /\ UNCHANGED <<upgrade_vars, report_vars, pin_vars>>

\* After the last dependency: the dry-run warning or the write.
RemoveFinish ==
    /\ rm_pc = "removing"
    /\ next_dep > Len(options.dependencies)
    /\ \E io_ok \in BOOLEAN :
        /\ IF options.dry_run
           THEN UNCHANGED <<calls, file>>
           ELSE /\ calls' = Append(calls, Call("write", ""))
                /\ file' = IF io_ok THEN manifest ELSE file
        /\ rm_pc' = "exited"
        /\ exit_code' = IF io_ok THEN 0 ELSE 101
        /\ rm_error' = IF io_ok THEN "" ELSE "io"
    /\ UNCHANGED <<argv_ok, options, manifest, next_dep>>
    /\ UNCHANGED <<upgrade_vars, report_vars, pin_vars>>

NextRemove ==
    \/ RemoveStart
    \/ RemoveDep
    \/ RemoveFinish

SpecRemove == InitRemove /\ [][NextRemove]_vars

\* ------------------------------------------------------------------------
\* print_upgrade
\* ------------------------------------------------------------------------
MaxRows == 2

\* The Dep exec pushes for entry e of key dep_key, or <<>> when the entry
\* ends in an error instead.
DepOf(dep_key, e, pinned, to_lockfile, explicit, lookup, packages) ==
    LET old_version_req == e.version.req
        reason0 == PinCheck(pinned, e.rename, old_version_req)
        locked_version == find_locked_version(e.name, old_version_req, packages)
        latest_version == IF e.is_registry THEN lookup ELSE NoVersion
        r == NewVersionReq(reason0, explicit, to_lockfile, old_version_req,
                           locked_version, latest_version)
    IN  IF r.err THEN NoDep
        ELSE <<[name |-> dep_key,
                old_version_req |-> old_version_req,
                locked_version |-> locked_version,
                latest_version |-> latest_version,
                new_version_req |-> r.req,
                reason |-> FinalReason(r.reason, r.req, old_version_req)]>>

\* What a caller can say about a key: nothing, the name, the name with a
\* requirement.
Explicits ==
    { [found |-> FALSE, version_req |-> None],
      [found |-> TRUE, version_req |-> None],
      [found |-> TRUE, version_req |-> Some(R1_2)] }

\* The Deps a table can hold: those exec pushes in latest mode, without
\* --pinned and without a loaded lockfile.
TableDeps ==
    { d[1] : d \in
        UNION { { DepOf(k, e, FALSE, FALSE, x, lookup, <<>>) :
                    e \in { en \in Entries(k) : en.parse_ok /\ en.version.some },
                    x \in Explicits,
                    lookup \in LatestVersions \cup {NoVersion} } : k \in Keys }
            \ {NoDep} }

\* Reason::as_short and Reason::as_long under Dep::short_reason and
\* Dep::long_reason.
short_reason(d) ==
    CASE d.reason = "Compatible" -> "compatible"
      [] d.reason = "Pinned"     -> "pinned"
      [] OTHER                   -> ""

long_reason(d) ==
    CASE d.reason = "Unchanged"  -> "unchanged"
      [] d.reason = "Compatible" -> "compatible"
      [] d.reason = "Pinned"     -> "pinned"
      [] OTHER                   -> ""

NotInteresting(d) == ~is_interesting(d)

\* The two rows spliced in front of the interesting Deps.
HeaderRows ==
    << [kind |-> "header", dep |-> NoDep], [kind |-> "rule", dep |-> NoDep] >>

\* The partition at the start of print_upgrade.
Partition(ds, v) ==
    IF v
    THEN [interesting |-> ds, uninteresting |-> <<>>]
    ELSE [interesting |-> SelectSeq(ds, is_interesting),
          uninteresting |-> SelectSeq(ds, NotInteresting)]

\* print_upgrade: the rows of the table and the note, each printed only
\* when it has something to show.  The note lists, per long reason, the set
\* of names of the uninteresting Deps.
print_upgrade(ds, v) ==
    LET part == Partition(ds, v)
        interesting == part.interesting
        uninteresting == part.uninteresting
        note_column == \E i \in 1..Len(interesting) :
                           short_reason(interesting[i]) # ""
        rows == [i \in 1..Len(interesting) |->
                    [kind |-> "dep", dep |-> <<interesting[i]>>]]
        reasons == { long_reason(uninteresting[i]) : i \in 1..Len(uninteresting) }
        categorize ==
            [r \in reasons |->
                { uninteresting[i].name :
                    i \in { k \in 1..Len(uninteresting) :
                              long_reason(uninteresting[k]) = r } }]
    IN  [main_table |-> IF interesting # <<>> THEN HeaderRows \o rows ELSE <<>>,
         note_column |-> note_column,
         note |-> IF uninteresting # <<>> THEN <<categorize>> ELSE <<>>]

\* A call of print_upgrade: exec has filled a table, in any mode.
InitReport ==
    /\ args = [pinned |-> FALSE, offline |-> FALSE, to_lockfile |-> FALSE,
               dry_run |-> FALSE, locked |-> FALSE]
    /\ exclude = {}
    /\ selected_dependencies = <<>>
    /\ pc = "idle"
    /\ InitRun
    /\ RemoveIdle
    /\ PinIdle
    /\ table \in SeqsUpTo(TableDeps, MaxRows) \ {<<>>}
    /\ verbose \in BOOLEAN
    /\ main_table = <<>>
    /\ note = <<>>
    /\ print_pc = "call"

PrintUpgrade ==
    /\ print_pc = "call"
    /\ LET out == print_upgrade(table, verbose)
       IN  /\ main_table' = out.main_table
           /\ note' = out.note
    /\ print_pc' = "returned"
    /\ UNCHANGED <<table, verbose>>
    /\ UNCHANGED <<upgrade_vars, remove_vars, pin_vars>>

NextReport == PrintUpgrade

SpecReport == InitReport /\ [][NextReport]_vars

\* ------------------------------------------------------------------------
\* is_pinned_req on its own
\* ------------------------------------------------------------------------
MaxComparators == 2

\* The ways a comparator is written: the bare form and the eight sigils.
Sigils == {"", "^", "~", "=", "<", "<=", ">", ">=", "*"}

\* Comparators "3", "^3", "3.*", ... and "1.2.0", "^1.2.0", "<1.2.0", ...
PinComparators == { Cmp(sg, p) : sg \in Sigils, p \in {<<3>>, <<1, 2, 0>>} }

\* Requirement strings: an unparsable one, the bare "*" (which parses to no
\* comparator) and comma-separated lists of comparators.
PinReqs ==
    {BadReq} \cup { Req(cs) : cs \in SeqsUpTo(PinComparators, MaxComparators) }

InitPinned ==
    /\ args = [pinned |-> FALSE, offline |-> FALSE, to_lockfile |-> FALSE,
               dry_run |-> FALSE, locked |-> FALSE]
    /\ exclude = {}
    /\ selected_dependencies = <<>>
    /\ pc = "idle"
    /\ InitRun
    /\ RemoveIdle
    /\ ReportIdle
    /\ pin_req \in PinReqs
    /\ pin_result = <<>>

IsPinnedReq ==
    /\ pin_result = <<>>
    /\ pin_result' = <<is_pinned_req(pin_req)>>
    /\ UNCHANGED pin_req
    /\ UNCHANGED <<upgrade_vars, remove_vars, report_vars>>

NextPinned == IsPinnedReq

SpecPinned == InitPinned /\ [][NextPinned]_vars

\* ------------------------------------------------------------------------
\* Properties of cargo upgrade (checked under Spec)
\* ------------------------------------------------------------------------
\* Whether the caller gave a version requirement with the name.
HasExplicit(name) ==
    \E i \in 1..Len(selected_dependencies) :
        /\ selected_dependencies[i].name = name
        /\ selected_dependencies[i].version_req.some

ExplicitReq(name) ==
    LET i == CHOOSE i \in 1..Len(selected_dependencies) :
                 selected_dependencies[i].name = name
    IN  selected_dependencies[i].version_req.req

\* exec returned from the code after the package loop.
EndErrors == {"locked", "lockfile", "missing"}

\* C1: in a run with --locked, once an entry got a new requirement different
\* from its old one, no manifest of the run has been or is ever written, the
\* run does not end successfully, and the error it ends with after the
\* packages is the --locked one.
C1_LockedNeverWrites ==
    /\ (dep # NoDep /\ req_changed(dep[1])) => any_crate_modified
    /\ (args.locked /\ any_crate_modified) =>
          /\ \A p \in DOMAIN written : written[p] = 0
          /\ pc # "done"
          /\ (pc = "failed" /\ error \in EndErrors) => error = "locked"

\* Two packages were processed under --locked without --dry-run, an entry
\* changed, and the run failed for --locked.
C1_Witness ==
    /\ args.locked
    /\ ~args.dry_run
    /\ any_crate_modified
    /\ pkg = 2
    /\ pc = "failed"
    /\ error = "locked"

\* The entry of the record is pinned: --pinned is not given and the entry is
\* a rename or its old requirement is pinned.
PinnedCase ==
    /\ ~args.pinned
    /\ dep_item[1].rename \/ is_pinned_req(dep[1].old_version_req)

\* C2: every decision record of a pinned entry has reason Pinned and its old
\* requirement as the new one, whatever the caller's explicit requirement
\* and the locked and latest versions; and only records of pinned entries
\* have reason Pinned.
C2_PinnedKeepsRequirement ==
    dep # NoDep =>
        /\ PinnedCase =>
              /\ dep[1].reason = "Pinned"
              /\ dep[1].new_version_req = dep[1].old_version_req
        /\ dep[1].reason = "Pinned" => PinnedCase

\* A renamed entry with a requirement that is not pinned, for which the
\* caller gave another requirement, and a newer latest version.
C2_Witness ==
    /\ dep # NoDep
    /\ dep[1].reason = "Pinned"
    /\ dep_item[1].rename
    /\ ~is_pinned_req(dep[1].old_version_req)
    /\ HasExplicit(dep[1].name)
    /\ ExplicitReq(dep[1].name) # dep[1].old_version_req
    /\ dep[1].latest_version = <<2, 0, 0>>

\* The record is of an entry decided in latest mode from a parsed latest
\* version: not pinned, no explicit requirement, no --to-lockfile.
LatestModeCase ==
    /\ dep # NoDep
    /\ ~args.to_lockfile
    /\ ~PinnedCase
    /\ ~HasExplicit(dep[1].name)
    /\ dep[1].latest_version # NoVersion
    /\ ParsesAsVersion(dep[1].latest_version)

\* The requirement minimal_upgrade computes, with the fallbacks of its
\* caller: the bare version when it errs, the old requirement when it
\* reports no change.
Computed(old_version_req, version) ==
    LET up == upgrade_requirement(old_version_req, version)
    IN  CASE up.tag = "some" -> up.req
          [] up.tag = "err"  -> VersionAsReq(version)
          [] OTHER           -> old_version_req

R1_5 == Req(<<Cmp("", <<1, 5>>)>>)

\* The record of requirement "1.2" with latest version "1.5.0" in latest mode.
ScenarioCase ==
    /\ LatestModeCase
    /\ dep[1].old_version_req = R1_2
    /\ dep[1].latest_version = <<1, 5, 0>>

\* C3 as stated: in latest mode "1.2" with latest "1.5.0" gets "1.5", no
\* reason, a rewritten table value and an interesting row; and whenever the
\* computed requirement differs from the old one it is the new requirement.
C3_Original ==
    /\ ScenarioCase =>
          /\ dep[1].new_version_req = R1_5
          /\ dep[1].reason = NoReason
          /\ dep_item[1].version = Some(R1_5)
          /\ is_interesting(dep[1])
    /\ LatestModeCase =>
          LET c == Computed(dep[1].old_version_req, dep[1].latest_version)
          IN  c # dep[1].old_version_req => dep[1].new_version_req = c

\* C3: in latest mode "1.2" with latest "1.5.0" keeps "1.2" with reason
\* Compatible, the table value is not rewritten and the row is not
\* interesting; whenever the computed requirement differs from the old one
\* and the old one does not match the latest version, the computed value is
\* the new requirement, without a reason, written to the table, and the row
\* is interesting.
C3_UpgradesIncompatible ==
    /\ ScenarioCase =>
          /\ dep[1].new_version_req = R1_2
          /\ dep[1].reason = "Compatible"
          /\ dep_item[1].version = Some(R1_2)
          /\ ~is_interesting(dep[1])
    /\ LatestModeCase =>
          LET c == Computed(dep[1].old_version_req, dep[1].latest_version)
          IN  (/\ c # dep[1].old_version_req
               /\ ~old_version_compatible(dep[1].old_version_req,
                                          dep[1].latest_version)) =>
                  /\ dep[1].new_version_req = c
                  /\ dep[1].reason = NoReason
                  /\ dep_item[1].version = Some(c)
                  /\ is_interesting(dep[1])

\* Both cases of C3 in one run: "1.2" was rewritten to "2.0" for latest
\* "2.0.0" after an entry had been classified compatible.
C3_Witness ==
    /\ LatestModeCase
    /\ compatible_present
    /\ dep[1].old_version_req = R1_2
    /\ dep[1].latest_version = <<2, 0, 0>>
    /\ dep[1].new_version_req = Req(<<Cmp("", <<2, 0>>)>>)
    /\ crate_modified

\* The entry of the record is compatible: in latest mode the computed
\* requirement differs from the old one, which matches the latest version.
CompatibleCase ==
    /\ LatestModeCase
    /\ Computed(dep[1].old_version_req, dep[1].latest_version)
          # dep[1].old_version_req
    /\ old_version_compatible(dep[1].old_version_req, dep[1].latest_version)

\* In latest mode the computed requirement equals the old one, which matches
\* the latest version.
EqualCase ==
    /\ LatestModeCase
    /\ Computed(dep[1].old_version_req, dep[1].latest_version)
          = dep[1].old_version_req
    /\ old_version_compatible(dep[1].old_version_req, dep[1].latest_version)

\* C4 as stated: reason Compatible only if the computed requirement equals
\* the old one and the old one matches the latest version; and whenever they
\* are equal and the old one matches, the reason is Compatible, the
\* requirement is unchanged and the hint is due.
C4_Original ==
    dep # NoDep =>
        /\ dep[1].reason = "Compatible" => EqualCase
        /\ EqualCase =>
              /\ dep[1].reason = "Compatible"
              /\ dep[1].new_version_req = dep[1].old_version_req
              /\ compatible_present

\* The hint is due only from a record with reason Compatible.
HintFromCompatible ==
    (compatible_present' /\ ~compatible_present) =>
        (dep' # NoDep /\ dep'[1].reason = "Compatible")

\* C4: a record has reason Compatible exactly when, in latest mode, the
\* computed requirement differs from the old one and the old one matches the
\* latest version; its requirement is then unchanged and a run that ends
\* successfully prints the --to-lockfile hint, which only such records bring
\* about; when the computed requirement equals the old one ("1" with a
\* latest 1.x) the reason is Unchanged.
C4_CompatibleWhenDiffers ==
    /\ [](dep # NoDep =>
            /\ dep[1].reason = "Compatible" <=> CompatibleCase
            /\ dep[1].reason = "Compatible" =>
                  /\ dep[1].new_version_req = dep[1].old_version_req
                  /\ dep_item[1].version = dep_item[1].before
                  /\ compatible_present
            /\ EqualCase =>
                  /\ dep[1].reason = "Unchanged"
                  /\ dep[1].new_version_req = dep[1].old_version_req)
    /\ [](pc = "done" => ("to-lockfile" \in notes <=> compatible_present))
    /\ [][HintFromCompatible]_vars

\* A run ended successfully with the hint printed.
C4_Witness ==
    /\ pc = "done"
    /\ "to-lockfile" \in notes
    /\ pkg = 2

\* The names the caller gave that are the key of no visited entry, in
\* command-line order.
RECURSIVE NamesOf(_)
NamesOf(sel) ==
    IF sel = <<>> THEN <<>> ELSE <<Head(sel).name>> \o NamesOf(Tail(sel))

NotAKey(sel) == sel.name \notin processed_keys

Missing == NamesOf(SelectSeq(selected_dependencies, NotAKey))

\* exec got past the package loop.
PastLoop == pc = "done" \/ (pc = "failed" /\ error \in EndErrors)

\* C5 as stated: after the packages, named dependencies that were never a
\* key make the run fail with the error naming exactly them; when every
\* named dependency was a key there is no such error.
C5_Original ==
    PastLoop =>
        /\ Missing # <<>> =>
              /\ pc = "failed"
              /\ error = "missing"
              /\ unused = Missing
        /\ Missing = <<>> => error # "missing"

\* C5: after the packages, named dependencies that were never a key make
\* the run fail; the error names exactly them unless an entry was modified
\* and the run failed before for --locked or for reloading the lockfile;
\* when every named dependency was a key there is no such error.
C5_MissingNamed ==
    PastLoop =>
        /\ Missing # <<>> =>
              /\ pc = "failed"
              /\ \/ error = "missing" /\ unused = Missing
                 \/ any_crate_modified /\ error \in {"locked", "lockfile"}
        /\ Missing = <<>> => error # "missing"
        /\ error # "missing" => unused = <<>>

\* "a" was given with a requirement and found, "c" was given and never a key.
C5_Witness ==
    /\ pc = "failed"
    /\ error = "missing"
    /\ unused = <<"c">>
    /\ "a" \in processed_keys
    /\ any_crate_modified

\* A manifest is written when its iteration ends, once, after a change, and
\* not in a dry run.
WriteStep ==
    \A p \in DOMAIN written :
        written'[p] # written[p] =>
            /\ written[p] = 0
            /\ written'[p] = 1
            /\ p = pkg
            /\ pc = "entries"
            /\ pc' = "packages"
            /\ crate_modified
            /\ ~args.dry_run

\* Errors raised while an entry is decided.
EntryErrors == {"registry url", "index", "version"}

\* C6: a manifest is written at most once, only when the iteration over its
\* entries has ended, only if one of its entries changed, never with
\* --dry-run; while its entries are being decided, and after an error in
\* deciding one, it is unwritten.
C6_WriteAfterDecisions ==
    /\ [](\A p \in DOMAIN written :
            /\ written[p] <= 1
            /\ written[p] = 1 => (p < pkg \/ (p = pkg /\ pc # "entries"))
            /\ written[p] = 1 => ~args.dry_run)
    /\ []((pc = "failed" /\ pkg >= 1 /\ error \in EntryErrors /\ dep_item # NoItem)
              => written[pkg] = 0)
    /\ [][WriteStep]_vars

\* An entry of the manifest changed and the next entry failed, so the
\* manifest is unwritten.
C6_Witness ==
    /\ pkg = 1
    /\ written[1] = 0
    /\ ~args.dry_run
    /\ ~args.locked
    /\ crate_modified
    /\ pc = "failed"
    /\ error = "version"

\* C7: the record of an entry that is not pinned and for which the caller
\* gave a requirement has that requirement as the new one, and it is the
\* table value, whatever the mode and the locked and latest versions.
C7_ExplicitRequirement ==
    (dep # NoDep /\ ~PinnedCase /\ HasExplicit(dep[1].name)) =>
        /\ dep[1].new_version_req = ExplicitReq(dep[1].name)
        /\ dep_item[1].version = Some(ExplicitReq(dep[1].name))

\* --to-lockfile, a locked version, an unparsable latest version, and the
\* explicit requirement replaced the old one.
C7_Witness ==
    /\ dep # NoDep
    /\ ~PinnedCase
    /\ HasExplicit(dep[1].name)
    /\ args.to_lockfile
    /\ dep[1].locked_version # NoVersion
    /\ dep[1].latest_version = BadVersion
    /\ dep[1].new_version_req # dep[1].old_version_req

\* The package name of the record's entry.
PackageName == IF dep_item[1].rename THEN OtherKey(dep[1].name) ELSE dep[1].name

\* Locked package i has the entry's package name and satisfies the old
\* requirement.
LockedMatch(i) ==
    /\ dep[1].old_version_req.ok
    /\ locked[i].name = PackageName
    /\ Matches(dep[1].old_version_req, locked[i].version)

\* The requirement with the parts it spells out taken from the version.
AtVersion(req, v) ==
    Req([i \in 1..Len(req.comparators) |->
            Cmp(req.comparators[i].sigil,
                SubSeq(v, 1, Len(req.comparators[i].parts)))])

LockfileModeCase ==
    /\ dep # NoDep
    /\ args.to_lockfile
    /\ ~PinnedCase
    /\ ~HasExplicit(dep[1].name)

\* C8: in lockfile mode the locked version of a record is that of the first
\* locked package with the entry's package name that satisfies the old
\* requirement; the new requirement is the old one moved to that version,
\* whatever the latest version; without such a package the new requirement
\* is the old one and the table value is as it was.
C8_LockfileTarget ==
    LockfileModeCase =>
        LET hits == { i \in 1..Len(locked) : LockedMatch(i) }
            first == CHOOSE i \in hits : \A j \in hits : i <= j
        IN  IF hits = {}
            THEN /\ dep[1].locked_version = NoVersion
                 /\ dep[1].new_version_req = dep[1].old_version_req
                 /\ dep_item[1].version = dep_item[1].before
            ELSE /\ dep[1].locked_version = locked[first].version
                 /\ dep[1].new_version_req
                       = AtVersion(dep[1].old_version_req, locked[first].version)
                 /\ dep_item[1].version = Some(dep[1].new_version_req)

\* Two locked packages satisfy "1.2", the first is 1.5.0, the latest version
\* is 2.0.0, and the requirement became "1.5".
C8_Witness ==
    /\ LockfileModeCase
    /\ Len(locked) = 2
    /\ LockedMatch(1)
    /\ LockedMatch(2)
    /\ dep[1].old_version_req = R1_2
    /\ dep[1].latest_version = <<2, 0, 0>>
    /\ dep[1].new_version_req = R1_5

\* ------------------------------------------------------------------------
\* Properties of cargo remove (checked under SpecRemove)
\* ------------------------------------------------------------------------
\* The removal of the j-th name fails on manifest m: the table is missing,
\* or the name is not in it, or an earlier name already took it out.
RemovalFails(m, j) ==
    LET deps == options.dependencies
    IN  \/ ~m.table_exists
        \/ deps[j] \notin m.table
        \/ \E i \in 1..(j - 1) : deps[i] = deps[j]

FailingNames(m) ==
    { j \in 1..Len(options.dependencies) : RemovalFails(m, j) }

Wrote == \E i \in 1..Len(calls) : calls[i][1] = "write"

\* The names attempted so far.
Attempted == { i \in 1..Len(calls) : calls[i][1] = "remove_from_table" }

\* The file changes only in the step that ends the invocation with status 0,
\* and write is invoked only when no removal fails.
FileStep ==
    /\ file' # file => exit_code' = 0
    /\ (Wrote' /\ ~Wrote) => FailingNames(file) = {}

\* C9: when a removal fails, remove returns the error of the first failing
\* name in the caller's order, has attempted the names up to it and no
\* later one, and has not invoked write; a command line that does not parse
\* ends with status 2 and nothing attempted; with --dry-run write is not
\* invoked; the file changes only in an invocation that ends with status 0.
C9_FailedRemoveWritesNothing ==
    /\ []((rm_pc = "exited" /\ rm_error \in RmNames) =>
            LET failing == FailingNames(file)
                first == CHOOSE j \in failing : \A k \in failing : j <= k
            IN  /\ failing # {}
                /\ rm_error = options.dependencies[first]
                /\ Cardinality(Attempted) = first
                /\ ~Wrote)
    /\ []((rm_pc = "exited" /\ ~argv_ok) => (exit_code = 2 /\ calls = <<>>))
    /\ [](options.dry_run => ~Wrote)
    /\ [](Wrote => rm_error \in {"", "io"})
    /\ [][FileStep]_vars

\* The first name was taken out of the table in memory, with its feature
\* activations, the second removal failed, and the file is as it was.
C9_Witness ==
    /\ rm_pc = "exited"
    /\ Len(options.dependencies) = 2
    /\ rm_error = options.dependencies[2]
    /\ ~options.dry_run
    /\ manifest.table # file.table
    /\ manifest.features # file.features

\* C10: the calls on the manifest are, for the names attempted, in the
\* caller's order, remove_from_table(name) directly followed by
\* gc_dep(name), also for the name whose removal failed; only write can
\* follow them.
C10_GcAfterEveryRemoval ==
    \A i \in 1..Len(calls) :
        /\ calls[i][1] = "remove_from_table" =>
              /\ i % 2 = 1
              /\ calls[i][2] = options.dependencies[(i + 1) \div 2]
              /\ i + 1 <= Len(calls)
              /\ calls[i + 1] = Call("gc_dep", calls[i][2])
        /\ calls[i][1] = "gc_dep" =>
              /\ i % 2 = 0
              /\ calls[i - 1] = Call("remove_from_table", calls[i][2])
        /\ calls[i][1] = "write" => i = Len(calls)

\* The removal of the second name failed and gc_dep ran for it: it took the
\* feature activations of a dependency that was declared nowhere.
C10_Witness ==
    /\ rm_pc = "exited"
    /\ rm_error \in RmNames
    /\ Len(calls) = 4
    /\ calls[4] = Call("gc_dep", rm_error)
    /\ rm_error \in file.features
    /\ rm_error \notin manifest.features

\* ------------------------------------------------------------------------
\* Claims: cargo upgrade, collaborator failures and the index refresh
\* ------------------------------------------------------------------------
\* The iteration that just ended made a collaborator call that failed.
IndexCallFailed == dep_item # NoItem /\ dep_item[1].index = "failed"

LookupFailed == dep_item # NoItem /\ dep_item[1].lookup = "failed"

C12_Original ==
    /\ \A u \in RegistryUrls : index_updates[u] <= 1
    /\ args.offline => \A u \in RegistryUrls : index_updates[u] = 0

\* ------------------------------------------------------------------------
\* Claims: print_upgrade (checked under SpecReport)
\* ------------------------------------------------------------------------
\* The old requirement matches the latest known version; a missing or
\* unparsable latest version and an unparsable old requirement count as a
\* match.
CountsAsMatching(d) ==
    \/ d.latest_version = NoVersion
    \/ ~ParsesAsVersion(d.latest_version)
    \/ ~d.old_version_req.ok
    \/ Matches(d.old_version_req, d.latest_version)

BelongsInMain(d) ==
    \/ d.reason = NoReason
    \/ d.new_version_req # d.old_version_req
    \/ ~CountsAsMatching(d)

\* The Deps of the rows below the two header rows, in order.
MainDeps ==
    [i \in 1..(IF main_table = <<>> THEN 0 ELSE Len(main_table) - 2) |->
        main_table[i + 2].dep[1]]

InMain(d) == \E i \in 1..Len(MainDeps) : MainDeps[i] = d

InNote(d) ==
    /\ note # <<>>
    /\ long_reason(d) \in DOMAIN note[1]
    /\ d.name \in note[1][long_reason(d)]

\* C13: without --verbose a Dep is a row of the main table exactly when its
\* reason is absent, or its requirement changed, or its old requirement does
\* not match the latest version; the rows are those Deps in table order;
\* every other Dep is named in the note under its reason and the note names
\* nothing else; with --verbose every Dep is a row and there is no note.
C13_ReportPartition ==
    print_pc = "returned" =>
        /\ ~verbose =>
              /\ MainDeps = SelectSeq(table, BelongsInMain)
              /\ \A i \in 1..Len(table) :
                    /\ InMain(table[i]) <=> BelongsInMain(table[i])
                    /\ ~BelongsInMain(table[i]) => InNote(table[i])
              /\ note # <<>> =>
                    \A r \in DOMAIN note[1] : \A n \in note[1][r] :
                        \E i \in 1..Len(table) :
                            /\ ~BelongsInMain(table[i])
                            /\ table[i].name = n
                            /\ long_reason(table[i]) = r
              /\ note = <<>> <=> \A i \in 1..Len(table) : BelongsInMain(table[i])
        /\ verbose => (MainDeps = table /\ note = <<>>)
        /\ main_table # <<>> =>
              (main_table[1].kind = "header" /\ main_table[2].kind = "rule")

\* Without --verbose, a pinned Dep whose requirement no longer matches the
\* latest version is a row of the table, and another Dep is in the note.
C13_Witness ==
    /\ print_pc = "returned"
    /\ ~verbose
    /\ note # <<>>
    /\ \E i \in 1..Len(table) :
          /\ table[i].reason = "Pinned"
          /\ ~CountsAsMatching(table[i])
          /\ InMain(table[i])

\* ------------------------------------------------------------------------
\* Claims: is_pinned_req (checked under SpecPinned)
\* ------------------------------------------------------------------------
\* "=3", "<3", "<=3", "3.*"
PinnedExamples ==
    { Req(<<Cmp(sg, <<3>>)>>) : sg \in {"=", "<", "<=", "*"} }

\* ">3", ">=3", "^3", "~3", "3", the bare "*" and an unparsable string
UnpinnedExamples ==
    { Req(<<Cmp(sg, <<3>>)>>) : sg \in {">", ">=", "^", "~", ""} }
        \cup {Req(<<>>), BadReq}

\* The requirement parses and one of its comparators is written with "=",
\* "<", "<=" or as a wildcard after a version part.
HasPinningComparator(req) ==
    /\ req.ok
    /\ \E i \in 1..Len(req.comparators) :
          req.comparators[i].sigil \in {"=", "<", "<=", "*"}

\* C14: is_pinned_req returns true exactly for a requirement that parses and
\* has a comparator with operator Exact, Less, LessEq or Wildcard; so it
\* returns true for "=3", "<3", "<=3", "3.*" and false for ">3", ">=3", "^3",
\* "3", the bare "*" and a requirement that does not parse.
C14_PinnedOperators ==
    pin_result # <<>> =>
        /\ pin_result[1] <=> HasPinningComparator(pin_req)
        /\ pin_req \in PinnedExamples => pin_result[1]
        /\ pin_req \in UnpinnedExamples => ~pin_result[1]

\* is_pinned_req returned true for a requirement such as ">=3, <1.2.0", where
\* only one of two comparators pins.
C14_Witness ==
    /\ pin_result = <<TRUE>>
    /\ pin_req.ok
    /\ Len(pin_req.comparators) = 2
    /\ \E i \in 1..2 : pin_req.comparators[i].sigil \in {">", ">=", "^", "~", ""}

\* ------------------------------------------------------------------------
\* Claims: cargo upgrade, decision records and mutation (checked under Spec)
\* ------------------------------------------------------------------------
Emitted == dep # NoDep

RecordChanged == Emitted /\ dep[1].new_version_req # dep[1].old_version_req

\* The iteration passed over the entry with `continue`.
FilteredOut ==
    /\ dep_item # NoItem
    /\ dep_item[1].outcome \in {"unselected", "excluded", "unsupported", "no version"}

\* The value of the entry in the table is not what it was.
Rewritten == dep_item # NoItem /\ dep_item[1].version # dep_item[1].before

\* C15: a decision record has no reason exactly when its new requirement
\* differs from the old one, and a reason is Pinned, Compatible or Unchanged;
\* the entry's value is rewritten exactly when such a record is emitted, to
\* the record's new requirement, and the manifest and the run are then marked
\* modified; the marks are set by no other step; an entry that is filtered
\* out keeps its value, gets no record and sets no mark.
C15_ReasonAndMutation ==
    /\ [](Emitted =>
            /\ (dep[1].reason = NoReason) <=> RecordChanged
            /\ dep[1].reason \in {NoReason, "Pinned", "Compatible", "Unchanged"}
            /\ dep_item # NoItem
            /\ dep_item[1].before = Some(dep[1].old_version_req)
            /\ dep_item[1].version = Some(dep[1].new_version_req))
    /\ [](Rewritten <=> RecordChanged)
    /\ [](RecordChanged => (crate_modified /\ any_crate_modified))
    /\ [](FilteredOut => (~Emitted /\ ~Rewritten))
    /\ [][(crate_modified' /\ ~crate_modified) => RecordChanged']_vars
    /\ [][(any_crate_modified' /\ ~any_crate_modified) => RecordChanged']_vars
    /\ [][FilteredOut' =>
            (crate_modified' = crate_modified
             /\ any_crate_modified' = any_crate_modified)]_vars

\* In the second package of a run that had changed nothing so far, the
\* caller's requirement replaced the old one: the record has no reason and
\* the entry, the manifest and the run are modified.
C15_Witness ==
    /\ pkg = 2
    /\ RecordChanged
    /\ Rewritten
    /\ dep[1].reason = NoReason
    /\ HasExplicit(dep[1].name)
    /\ crate_modified
    /\ any_crate_modified
====
